---- MODULE Spec2Model ----
(***************************************************************************)
(* Model of the Glucos monitoring core: the in-memory DataStore            *)
(* (services/dataStore), the CGMSimulator (services/cgmSimulator), the     *)
(* TestDataGenerator (services/testDataGenerator), the quick-action        *)
(* handlers and the localStorage persistence of the store.                 *)
(*                                                                         *)
(* Units.  Time is counted in whole minutes since midnight of day 0 (the   *)
(* code uses milliseconds).  Real numbers are scaled integers:             *)
(*   - a dose's units are stored in tenths of a unit (4.5 U = 45);         *)
(*   - insulin on board is stored times IOBScale (units x 10 x 300 min);   *)
(*   - the simulator's currentBGL and a cycle's change are stored times    *)
(*     Scale, so that iob * 0.5 = iobScaled * Scale / (2 * IOBScale) is an *)
(*     integer.                                                            *)
(***************************************************************************)
EXTENDS Integers, Sequences, FiniteSets, TLC

VARIABLES
    now,             \* wall clock, minutes (new Date() / Date.now())
    glucoseReadings, \* DataStore.glucoseReadings
    mealLogs,        \* DataStore.mealLogs
    medicationLogs,  \* DataStore.medicationLogs
    isRunning,       \* CGMSimulator.isRunning
    currentBGL,      \* CGMSimulator.currentBGL, times Scale
    currentTrend,    \* CGMSimulator.currentTrend
    intervalId,      \* CGMSimulator.intervalId, 0 is null
    alertCallback,   \* CGMSimulator.alertCallback: is one registered
    timers,          \* the browser's active interval timers: [id, due]
    nextTimerId,     \* the id window.setInterval hands out next
    inFlight,        \* number of callGuardian promises not yet settled
    pending,         \* the callGuardian calls not yet settled, oldest first
    agentInteractions, \* DataStore.agentInteractions
    alertSends,      \* the requests made to the email server's /send-emergency-alert
    probe,           \* the last result a caller got from updateTrend or getStatistics
    localStorage,    \* the "glucos-data" item: <<>> (absent) or <<saved>>
    lastQuery,       \* the array the last query call returned, as held by its caller
    populated,       \* number of populateTestData() calls so far
    appends,         \* number of readings the generator and manual entries appended
    advances,        \* number of steps the clock took
    logged,          \* number of quick-action logs (insulin and meals)
    testQueue,       \* the events a running populateTestData() has still to add
    stampPending,    \* populateTestData() has appended an event and not yet re-stamped it
    lastOp           \* the operation that took the last step

vars == <<now, glucoseReadings, mealLogs, medicationLogs, isRunning, currentBGL,
          currentTrend, intervalId, alertCallback, timers, nextTimerId, inFlight,
          localStorage, lastQuery, populated, appends, advances, logged,
          testQueue, stampPending, lastOp, pending, agentInteractions, alertSends,
          probe>>

storeVars == <<glucoseReadings, mealLogs, medicationLogs>>
testVars == <<testQueue, stampPending>>
auxVars == <<agentInteractions, alertSends, probe>>
simVars == <<isRunning, currentBGL, currentTrend, intervalId, alertCallback,
             timers, nextTimerId, inFlight,
            pending>>

----------------------------------------------------------------------------
(* Program constants *)

\* the retention bound of the glucose stream
MaxGlucoseReadings == 1000
\* setInterval period of the generator, minutes
TickInterval == 5
\* insulin is active for 5 hours
ActiveWindow == 300
\* minutes per hour, hours per day
MinutesPerHour == 60
MinutesPerDay == 1440
\* scale of currentBGL and of a cycle's change
Scale == 6000
\* scale of insulin on board: tenths of a unit times minutes of the window
IOBScale == 3000
\* updateTrend divides a cycle's change by 5 to get the rate per minute
RateMinutes == 5
\* initial currentBGL, clamp limits
InitialBGL == 120
MinBGL == 40
MaxBGL == 400

(* Bounds of the model *)

\* the clock takes at most this many steps
MaxAdvances == 2
\* the generator and manual entries append at most this many readings
MaxGlucose == 2
\* at most this many meal / medication entries are logged by quick actions
MaxLogs == 2
\* at most this many setInterval registrations
MaxTimers == 2
\* at most this many unsettled guardian calls
MaxInFlight == 2
\* populateTestData() is called at most this often
MaxPopulate == 1
\* days of history populateTestData generates before today (the code: 7)
TestDays == 0
\* glucose samples per day populateTestData keeps (the code: 48)
TestSamplesPerDay == 1

\* what the entry form can hold besides a number: text parseFloat turns into
\* NaN, and nothing.  NaN stands for the IEEE value: arithmetic on it gives
\* NaN and every comparison with it is false.
NaN == -1000000000
EmptyField == -1000000001

StartTimes == {355}
TimeSteps == {5, 60, 300}
RetentionTimeSteps == {5}
RetentionBGLs == {65}
StoreTimeSteps == {60}
StoreQueryHours == {24}
StoreInsulinUnits == {45}
StoreBGLs == {65}
\* the Math.random() draws of the test data where the glucose values do not matter
IOBRand == {0}
GeneratorIOBs == {2}
ReadTimeSteps == {5, 60}
Trends == {"steady", "up", "down", "double_up", "double_down"}
\* the values Math.random() is drawn from, times Scale: [0, 1)
Rand == {0, Scale - 1}
ManualBGLs == {65, 260}
ManualTrends == {"double_down"}
\* the insulin on board typed into the manual entry form, whole units; 0 is empty
ManualIOBs == {0, 2}
\* the amounts typed into the insulin quick action, tenths of a unit
InsulinUnits == {20, 45}
CarbAmounts == {30}
QueryHours == {0, 1, 24}
Kinds == {"glucose", "meal", "medication"}
\* manual entries <<bgl, trend, insulin on board typed>> whose verdict the
\* decision table fixes, and one that differs from the first in the insulin
\* on board only
AlertEntries ==
    {<<65, "steady", 0>>, <<120, "steady", 2>>, <<260, "up", 0>>, <<75, "steady", 0>>,
     <<65, "steady", 2>>}
\* the guardian's answers followed for the alerts: none, all clear, critical
AlertResponses ==
    {[ok |-> FALSE, alert |-> FALSE, severity |-> "none"],
     [ok |-> TRUE, alert |-> FALSE, severity |-> "normal"],
     [ok |-> TRUE, alert |-> TRUE, severity |-> "critical"]}
\* what parseFloat makes of the value typed into the entry form: a usual
\* value, a negative one, one above the sensor's range, text, nothing
EntryBGLs == {120, -5, 500, NaN, EmptyField}
\* the guardian's answers followed for the monitoring loop: none, critical
LoopResponses ==
    {[ok |-> FALSE, alert |-> FALSE, severity |-> "none"],
     [ok |-> TRUE, alert |-> TRUE, severity |-> "critical"]}
\* changes of one cycle, times Scale: none, the four boundaries of the rate
\* (1 and 2 mg/dL per minute, up and down) and the least change beyond each
TrendChanges ==
    {b * RateMinutes * Scale : b \in {-2, -1, 0, 1, 2}}
      \cup {b * RateMinutes * Scale + 1 : b \in {1, 2}}
      \cup {b * RateMinutes * Scale - 1 : b \in {-2, -1}}

\* windows of getStatistics: the last hour and the default of 7 days
StatsHours == {1, 168}

\* the glucose values of saved streams that are summarized: none; the five
\* of the worked example; the values at the bounds of the buckets; forty
\* readings with 23 in range; values entered by hand are added by analyzeBgl
StatsSamples ==
    {<<>>,
     <<70, 100, 100, 190, 300>>,
     <<69, 70, 180, 181, 250, 251>>,
     [i \in 1..40 |-> IF i <= 23 THEN 100 ELSE 200]}
StatsBGLs == {65}

\* a glucose value in the unit of currentBGL
inScale(bgl) == IF bgl = NaN THEN NaN ELSE bgl * Scale

Max(a, b) == IF a >= b THEN a ELSE b
Min(a, b) == IF a <= b THEN a ELSE b

RECURSIVE SumSeq(_)
SumSeq(s) == IF s = <<>> THEN 0 ELSE Head(s) + SumSeq(Tail(s))

----------------------------------------------------------------------------
(* DataStore *)

\* addGlucoseReading with pop() in place of shift(): the newest reading goes
addGlucoseReadingPop(readings, reading, t) ==
    LET pushed == Append(readings,
                         [timestamp |-> t, bgl |-> reading.bgl, trend |-> reading.trend,
                          insulinOnBoard |-> reading.insulinOnBoard])
    IN IF Len(pushed) > MaxGlucoseReadings
       THEN SubSeq(pushed, 1, Len(pushed) - 1)
       ELSE pushed

\* addGlucoseReading: push with timestamp new Date(), then shift when over 1000
addGlucoseReading(readings, reading, t) ==
    LET pushed == Append(readings,
                         [timestamp |-> t, bgl |-> reading.bgl, trend |-> reading.trend,
                          insulinOnBoard |-> reading.insulinOnBoard])
    IN IF Len(pushed) > MaxGlucoseReadings THEN Tail(pushed) ELSE pushed

\* getGlucoseReadings / getMealLogs / getMedicationLogs: a new array, filtered
getSinceStrict(logs, hours, t) ==
    LET cutoff == t - hours * MinutesPerHour
        keep(r) == r.timestamp > cutoff
    IN SelectSeq(logs, keep)

\* the filter of getGlucoseReadings / getMealLogs / getMedicationLogs: the
\* entries with timestamp >= cutoff, in storage order, as a new array
getSince(logs, hours, t) ==
    LET cutoff == t - hours * MinutesPerHour
        keep(r) == r.timestamp >= cutoff
    IN SelectSeq(logs, keep)

getGlucoseReadings(hours) == getSince(glucoseReadings, hours, now)
getMealLogs(hours) == getSince(mealLogs, hours, now)
getMedicationLogs(hours) == getSince(medicationLogs, hours, now)

\* Math.round(num / den) for den > 0: the nearest integer, a half goes up
MathRound(num, den) == (2 * num + den) \div (2 * den)

\* the ratios count / total whose product with 100 is, in double arithmetic,
\* one unit in the last place under the half it equals exactly (in 200ths)
HalfLostIn200ths == {29, 57, 113, 115}

\* Math.round((count / total) * 100) as double arithmetic evaluates it
percent(count, total) ==
    IF \E h \in HalfLostIn200ths : 200 * count = h * total
    THEN MathRound(100 * count, total) - 1
    ELSE MathRound(100 * count, total)

\* the sum of the bgl values, NaN when one of them is
totalBGL(readings) ==
    IF \E i \in 1..Len(readings) : readings[i].bgl = NaN
    THEN NaN
    ELSE SumSeq([i \in 1..Len(readings) |-> readings[i].bgl])

\* the record getStatistics returns when the window holds no reading
NoReadingsStatistics ==
    [avgBGL |-> 0, timeInRange |-> 0, timeAboveRange |-> 0, timeBelowRange |-> 0,
     hypoEvents |-> 0, hyperEvents |-> 0, readings |-> 0, avgCarbs |-> 0,
     totalInsulin |-> 0]

\* getStatistics without the return for an empty window: the divisions by
\* readings.length give NaN, the meal and dose totals are computed
getStatisticsNoEarlyReturn(readings, meals, meds, hours, t) ==
    LET inWindow == getSince(readings, hours, t)
        mealsIn == getSince(meals, hours, t)
        medsIn == getSince(meds, hours, t)
        total == totalBGL(inWindow)
        inRange(r) == r.bgl # NaN /\ r.bgl >= 70 /\ r.bgl <= 180
        aboveRange(r) == r.bgl # NaN /\ r.bgl > 180
        belowRange(r) == r.bgl # NaN /\ r.bgl < 70
        hyper(r) == r.bgl # NaN /\ r.bgl > 250
        share(count) == IF Len(inWindow) = 0 THEN NaN ELSE percent(count, Len(inWindow))
        totalCarbs == SumSeq([i \in 1..Len(mealsIn) |-> mealsIn[i].carbs])
        totalInsulin == SumSeq([i \in 1..Len(medsIn) |-> medsIn[i].units])
    IN [avgBGL |-> IF total = NaN \/ Len(inWindow) = 0 THEN NaN
                   ELSE MathRound(total, Len(inWindow)),
        timeInRange |-> share(Len(SelectSeq(inWindow, inRange))),
        timeAboveRange |-> share(Len(SelectSeq(inWindow, aboveRange))),
        timeBelowRange |-> share(Len(SelectSeq(inWindow, belowRange))),
        hypoEvents |-> Len(SelectSeq(inWindow, belowRange)),
        hyperEvents |-> Len(SelectSeq(inWindow, hyper)),
        readings |-> Len(inWindow),
        avgCarbs |-> IF Len(mealsIn) > 0 THEN MathRound(totalCarbs, Len(mealsIn)) ELSE 0,
        totalInsulin |-> totalInsulin]

\* getStatistics with the range bounds exclusive: 70 and 180 fall outside
getStatisticsExclusiveRange(readings, meals, meds, hours, t) ==
    LET inWindow == getSince(readings, hours, t)
        mealsIn == getSince(meals, hours, t)
        medsIn == getSince(meds, hours, t)
        total == totalBGL(inWindow)
        inRange(r) == r.bgl # NaN /\ r.bgl > 70 /\ r.bgl < 180
        aboveRange(r) == r.bgl # NaN /\ r.bgl >= 180
        belowRange(r) == r.bgl # NaN /\ r.bgl <= 70
        hypo(r) == r.bgl # NaN /\ r.bgl < 70
        hyper(r) == r.bgl # NaN /\ r.bgl > 250
        totalCarbs == SumSeq([i \in 1..Len(mealsIn) |-> mealsIn[i].carbs])
        totalInsulin == SumSeq([i \in 1..Len(medsIn) |-> medsIn[i].units])
    IN IF Len(inWindow) = 0
       THEN NoReadingsStatistics
       ELSE [avgBGL |-> IF total = NaN THEN NaN ELSE MathRound(total, Len(inWindow)),
             timeInRange |-> percent(Len(SelectSeq(inWindow, inRange)), Len(inWindow)),
             timeAboveRange |-> percent(Len(SelectSeq(inWindow, aboveRange)), Len(inWindow)),
             timeBelowRange |-> percent(Len(SelectSeq(inWindow, belowRange)), Len(inWindow)),
             hypoEvents |-> Len(SelectSeq(inWindow, hypo)),
             hyperEvents |-> Len(SelectSeq(inWindow, hyper)),
             readings |-> Len(inWindow),
             avgCarbs |-> IF Len(mealsIn) > 0 THEN MathRound(totalCarbs, Len(mealsIn))
                          ELSE 0,
             totalInsulin |-> totalInsulin]

\* getStatistics: the summary of the last hours; units are tenths, so
\* Math.round(totalInsulin * 10) / 10 is the sum itself
getStatistics(readings, meals, meds, hours, t) ==
    LET inWindow == getSince(readings, hours, t)
        mealsIn == getSince(meals, hours, t)
        medsIn == getSince(meds, hours, t)
        total == totalBGL(inWindow)
        inRange(r) == r.bgl # NaN /\ r.bgl >= 70 /\ r.bgl <= 180
        aboveRange(r) == r.bgl # NaN /\ r.bgl > 180
        belowRange(r) == r.bgl # NaN /\ r.bgl < 70
        hypo(r) == r.bgl # NaN /\ r.bgl < 70
        hyper(r) == r.bgl # NaN /\ r.bgl > 250
        totalCarbs == SumSeq([i \in 1..Len(mealsIn) |-> mealsIn[i].carbs])
        totalInsulin == SumSeq([i \in 1..Len(medsIn) |-> medsIn[i].units])
    IN IF Len(inWindow) = 0
       THEN NoReadingsStatistics
       ELSE [avgBGL |-> IF total = NaN THEN NaN ELSE MathRound(total, Len(inWindow)),
             timeInRange |-> percent(Len(SelectSeq(inWindow, inRange)), Len(inWindow)),
             timeAboveRange |-> percent(Len(SelectSeq(inWindow, aboveRange)), Len(inWindow)),
             timeBelowRange |-> percent(Len(SelectSeq(inWindow, belowRange)), Len(inWindow)),
             hypoEvents |-> Len(SelectSeq(inWindow, hypo)),
             hyperEvents |-> Len(SelectSeq(inWindow, hyper)),
             readings |-> Len(inWindow),
             avgCarbs |-> IF Len(mealsIn) > 0 THEN MathRound(totalCarbs, Len(mealsIn))
                          ELSE 0,
             totalInsulin |-> totalInsulin]

\* getLatestGlucoseReading: the last element or null (<<>>)
getLatestGlucoseReading(readings) ==
    IF Len(readings) > 0 THEN <<readings[Len(readings)]>> ELSE <<>>

addMealLog(logs, meal, t) ==
    Append(logs, [timestamp |-> t, carbs |-> meal.carbs])

addMedicationLog(logs, med, t) ==
    Append(logs, [timestamp |-> t, type |-> med.type, units |-> med.units])

\* getInsulinOnBoard with the decay inverted: the share already absorbed
getInsulinOnBoardAbsorbed(meds, t) ==
    LET recent(m) == (t - m.timestamp) <= ActiveWindow /\ m.type = "bolus"
        recentMeds == SelectSeq(meds, recent)
        absorbed(m) == m.units * Max(0, t - m.timestamp)
    IN SumSeq([i \in 1..Len(recentMeds) |-> absorbed(recentMeds[i])])

\* getInsulinOnBoard without the test of the dose type
getInsulinOnBoardAnyType(meds, t) ==
    LET recent(m) == (t - m.timestamp) <= ActiveWindow
        recentMeds == SelectSeq(meds, recent)
        remaining(m) == m.units * Max(0, ActiveWindow - (t - m.timestamp))
    IN SumSeq([i \in 1..Len(recentMeds) |-> remaining(recentMeds[i])])

\* getInsulinOnBoard: bolus doses at most 5 hours old, linear decay.
\* The result is the code's value times IOBScale.
getInsulinOnBoard(meds, t) ==
    LET recent(m) == (t - m.timestamp) <= ActiveWindow /\ m.type = "bolus"
        recentMeds == SelectSeq(meds, recent)
        remaining(m) == m.units * Max(0, ActiveWindow - (t - m.timestamp))
    IN SumSeq([i \in 1..Len(recentMeds) |-> remaining(recentMeds[i])])

----------------------------------------------------------------------------
(* CGMSimulator *)

\* new Date().getHours()
getHours(t) == (t % MinutesPerDay) \div MinutesPerHour

\* Math.round of a non-negative value held times Scale
Round(x) == IF x = NaN THEN NaN ELSE (x + Scale \div 2) \div Scale

\* calculateChange: r1, r2, r3 are the three Math.random() draws, times Scale
\* calculateChange, time of day effects: the change (times Scale) it starts
\* from at the given hour, r being Math.random() times Scale
baseChange(hour, r) ==
    IF hour >= 6 /\ hour <= 8 THEN r * 3 + Scale
    ELSE IF hour >= 12 /\ hour <= 13 THEN r * 2
    ELSE (2 * r - Scale)

calculateChange(t, meals, meds, bgl, r1, r2, r3) ==
    LET hour == getHours(t)
        recentMeal == Len(getSince(meals, 1, t)) > 0
        base == baseChange(hour, r1)
        meal == IF recentMeal THEN r2 * 5 + 2 * Scale ELSE 0
        iob == (getInsulinOnBoard(meds, t) * Scale) \div (2 * IOBScale)
        mean == IF bgl = NaN THEN 0
                ELSE IF bgl > 180 * Scale THEN -Scale
                ELSE IF bgl < 80 * Scale THEN Scale
                ELSE 0
        noise == 2 * r3 - Scale
    IN base + meal - iob + mean + noise

\* updateTrend with the boundary rates put into the more severe bucket
updateTrendInclusive(change) ==
    IF change >= 2 * RateMinutes * Scale THEN "double_up"
    ELSE IF change >= RateMinutes * Scale THEN "up"
    ELSE IF change <= -(2 * RateMinutes * Scale) THEN "double_down"
    ELSE IF change <= -(RateMinutes * Scale) THEN "down"
    ELSE "steady"

\* updateTrend: rate = change / 5 per minute
updateTrend(change) ==
    IF change > 2 * RateMinutes * Scale THEN "double_up"
    ELSE IF change > RateMinutes * Scale THEN "up"
    ELSE IF change < -(2 * RateMinutes * Scale) THEN "double_down"
    ELSE IF change < -(RateMinutes * Scale) THEN "down"
    ELSE "steady"

\* the arguments of one callGuardian(bgl, trend, insulinOnBoard) call, the
\* number of the reading it was made for, and who awaits it: a generation
\* cycle, addManualReading's then/catch, or the entry form
guardianCall(n, reading, caller) ==
    [reading |-> n, bgl |-> reading.bgl, trend |-> reading.trend,
     insulinOnBoard |-> reading.insulinOnBoard, caller |-> caller]

\* generateReading that builds its reading from the value the generator had
\* when the cycle began
generateReadingStale(bgl, r1, r2, r3) ==
    LET change == calculateChange(now, mealLogs, medicationLogs, bgl, r1, r2, r3)
        newBGL == IF bgl = NaN THEN NaN
                  ELSE Max(MinBGL * Scale, Min(MaxBGL * Scale, bgl + change))
        newTrend == updateTrend(change)
        reading == [bgl |-> Round(bgl), trend |-> newTrend,
                    insulinOnBoard |-> getInsulinOnBoard(medicationLogs, now)]
    IN /\ currentBGL' = newBGL
       /\ currentTrend' = newTrend
       /\ glucoseReadings' = addGlucoseReading(glucoseReadings, reading, now)
       /\ inFlight' = inFlight + 1
       /\ pending' = Append(pending, guardianCall(appends + 1, reading, "cycle"))
       /\ appends' = appends + 1

\* generateReading up to its first await: one reading appended, one guardian
\* call issued.  The rest of the cycle runs in GuardianSettles.
generateReading(bgl, r1, r2, r3) ==
    LET change == calculateChange(now, mealLogs, medicationLogs, bgl, r1, r2, r3)
        newBGL == IF bgl = NaN THEN NaN
                  ELSE Max(MinBGL * Scale, Min(MaxBGL * Scale, bgl + change))
        newTrend == updateTrend(change)
        reading == [bgl |-> Round(newBGL), trend |-> newTrend,
                    insulinOnBoard |-> getInsulinOnBoard(medicationLogs, now)]
    IN /\ currentBGL' = newBGL
       /\ currentTrend' = newTrend
       /\ glucoseReadings' = addGlucoseReading(glucoseReadings, reading, now)
       /\ inFlight' = inFlight + 1
       /\ pending' = Append(pending, guardianCall(appends + 1, reading, "cycle"))
       /\ appends' = appends + 1

\* what is left of the timers after stop() ran clearInterval
clearInterval(ts, id) == {t \in ts : t.id # id}

\* start() without its "if (this.isRunning) return"
startWithoutGuard ==
    /\ lastOp' = "start"
    /\ nextTimerId <= MaxTimers
    /\ inFlight < MaxInFlight
    /\ appends < MaxGlucose
    /\ alertCallback' = TRUE
    /\ isRunning' = TRUE
    /\ intervalId' = nextTimerId
    /\ nextTimerId' = nextTimerId + 1
    /\ timers' = timers \cup {[id |-> nextTimerId, due |-> now + TickInterval]}
    /\ \E r1, r2, r3 \in Rand : generateReading(currentBGL, r1, r2, r3)
    /\ UNCHANGED <<now, mealLogs, medicationLogs, localStorage, lastQuery, populated,
                   advances, logged, testVars, auxVars>>

\* start(onAlert)
start ==
    /\ lastOp' = "start"
    /\ IF isRunning
       THEN UNCHANGED <<simVars, storeVars, appends>>
       ELSE /\ nextTimerId <= MaxTimers
            /\ inFlight < MaxInFlight
            /\ appends < MaxGlucose
            /\ alertCallback' = TRUE
            /\ isRunning' = TRUE
            /\ intervalId' = nextTimerId
            /\ nextTimerId' = nextTimerId + 1
            /\ timers' = timers \cup {[id |-> nextTimerId, due |-> now + TickInterval]}
            /\ \E r1, r2, r3 \in Rand :
                 LET lastReading == getLatestGlucoseReading(glucoseReadings)
                     bgl == IF lastReading # <<>> THEN inScale(lastReading[1].bgl)
                            ELSE currentBGL
                 IN generateReading(bgl, r1, r2, r3)
            /\ UNCHANGED <<mealLogs, medicationLogs>>
    /\ UNCHANGED <<now, localStorage, lastQuery, populated, advances, logged, testVars, auxVars>>

\* stop() that forgets clearInterval
stopWithoutClear ==
    /\ lastOp' = "stop"
    /\ intervalId' = 0
    /\ isRunning' = FALSE
    /\ UNCHANGED <<now, storeVars, currentBGL, currentTrend, alertCallback, timers,
                   nextTimerId, inFlight, pending, localStorage, lastQuery, populated,
                   appends, advances, logged, testVars, auxVars>>

\* stop() that clears the timer and leaves isRunning as it is
stopStillRunning ==
    /\ lastOp' = "stop"
    /\ IF intervalId # 0
       THEN /\ timers' = clearInterval(timers, intervalId)
            /\ intervalId' = 0
       ELSE UNCHANGED <<timers, intervalId>>
    /\ UNCHANGED <<now, storeVars, isRunning, currentBGL, currentTrend, alertCallback,
                   nextTimerId, inFlight, pending, localStorage, lastQuery, populated,
                   appends, advances, logged, testVars, auxVars>>

\* stop()
stop ==
    /\ lastOp' = "stop"
    /\ IF intervalId # 0
       THEN /\ timers' = clearInterval(timers, intervalId)
            /\ intervalId' = 0
       ELSE UNCHANGED <<timers, intervalId>>
    /\ isRunning' = FALSE
    /\ UNCHANGED <<now, storeVars, currentBGL, currentTrend, alertCallback,
                   nextTimerId, inFlight, pending, localStorage, lastQuery, populated,
                   appends, advances, logged, testVars, auxVars>>

\* a timer callback that does not run its cycle while a guardian call of an
\* earlier cycle is pending
tickWhenSettled(t) ==
    /\ lastOp' = "tick"
    /\ t \in timers
    /\ now >= t.due
    /\ pending = <<>>
    /\ appends < MaxGlucose
    /\ timers' = (timers \ {t}) \cup {[id |-> t.id, due |-> now + TickInterval]}
    /\ \E r1, r2, r3 \in Rand : generateReading(currentBGL, r1, r2, r3)
    /\ UNCHANGED <<now, mealLogs, medicationLogs, isRunning, intervalId, alertCallback,
                   nextTimerId, localStorage, lastQuery, populated, advances, logged,
                   testVars, auxVars>>

\* the interval timer t fires: the callback runs one generation cycle
tick(t) ==
    /\ lastOp' = "tick"
    /\ t \in timers
    /\ now >= t.due
    /\ inFlight < MaxInFlight
    /\ appends < MaxGlucose
    /\ timers' = (timers \ {t}) \cup {[id |-> t.id, due |-> now + TickInterval]}
    /\ \E r1, r2, r3 \in Rand : generateReading(currentBGL, r1, r2, r3)
    /\ UNCHANGED <<now, mealLogs, medicationLogs, isRunning, intervalId, alertCallback,
                   nextTimerId, localStorage, lastQuery, populated, advances, logged, testVars, auxVars>>

\* addManualReading that stores the reading and leaves the generator's
\* currentBGL and currentTrend as they are
addManualReadingAppendOnly(bgl, trend, insulinOnBoard, after) ==
    /\ UNCHANGED <<currentBGL, currentTrend>>
    /\ glucoseReadings' = addGlucoseReading(glucoseReadings,
                              [bgl |-> bgl, trend |-> trend,
                               insulinOnBoard |-> insulinOnBoard], now)
    /\ pending' = Append(pending,
                         guardianCall(appends + 1,
                                      [bgl |-> bgl, trend |-> trend,
                                       insulinOnBoard |-> insulinOnBoard], "manual"))
                    \o after

\* addManualReading(bgl, trend, insulinOnBoard): the state is overwritten, the
\* reading is appended as given, and one guardian call is issued; after are
\* the calls its caller issues next in the same task
addManualReading(bgl, trend, insulinOnBoard, after) ==
    /\ currentBGL' = inScale(bgl)
    /\ currentTrend' = trend
    /\ glucoseReadings' = addGlucoseReading(glucoseReadings,
                              [bgl |-> bgl, trend |-> trend,
                               insulinOnBoard |-> insulinOnBoard], now)
    /\ pending' = Append(pending,
                         guardianCall(appends + 1,
                                      [bgl |-> bgl, trend |-> trend,
                                       insulinOnBoard |-> insulinOnBoard], "manual"))
                    \o after

\* GlucoseMonitor.analyzeBgl: the manual entry form.  bgl is what parseFloat
\* makes of the typed value, or EmptyField.  iobInput is the typed
\* insulin on board in whole units; 0 (or an empty field) falls back to the
\* store's estimate.  analyzeBgl issues a second guardian call of its own.
analyzeBgl(bgl, trend, iobInput) ==
    /\ lastOp' = "manual"
    /\ IF bgl = EmptyField
       THEN \* "Please enter a blood glucose reading"
            UNCHANGED <<glucoseReadings, currentBGL, currentTrend, inFlight, pending,
                        appends>>
       ELSE /\ inFlight + 2 <= MaxInFlight
            /\ appends < MaxGlucose
            /\ LET iob == IF iobInput # 0 THEN iobInput * IOBScale
                          ELSE getInsulinOnBoard(medicationLogs, now)
               IN addManualReading(bgl, trend, iob,
                      <<guardianCall(appends + 1,
                                     [bgl |-> bgl, trend |-> trend,
                                      insulinOnBoard |-> iob], "form")>>)
            /\ inFlight' = inFlight + 2
            /\ appends' = appends + 1
    /\ UNCHANGED <<now, mealLogs, medicationLogs, isRunning, intervalId, alertCallback,
                   timers, nextTimerId, localStorage, lastQuery, populated, advances,
                   logged, testVars, auxVars>>

\* what the guardian function can answer: no usable answer (network error,
\* HTTP error, analysis that is not JSON), or the analysis the language model
\* wrote, which the program takes as it comes
Failure == [ok |-> FALSE, alert |-> FALSE, severity |-> "none"]
Analyses == [ok : {TRUE}, alert : BOOLEAN, severity : {"critical", "warning", "normal"}]
GuardianResponses == {Failure} \cup Analyses

\* sendEmergencyAlert(bgl, trend, analysis): one request to the email server;
\* its outcome is only logged
sendEmergencyAlert(sends, call, t) ==
    Append(sends, [reading |-> call.reading, bgl |-> call.bgl, trend |-> call.trend,
                   alertType |-> IF call.bgl # NaN /\ call.bgl < 70
                                 THEN "HYPOGLYCEMIA" ELSE "HYPERGLYCEMIA",
                   timestamp |-> t])

\* the i-th pending callGuardian call gets its response: on an analysis the
\* interaction is recorded and a critical alert is sent to the email server;
\* on a failure the call throws, and every caller catches and logs.  The
\* continuation of the caller (alert callback, toast, log) does not touch the
\* store or the generator.
GuardianResponds(i, response) ==
    /\ lastOp' = IF response.ok THEN "settle" ELSE "settleFailed"
    /\ i \in 1..Len(pending)
    /\ inFlight > 0
    /\ inFlight' = inFlight - 1
    /\ pending' = SubSeq(pending, 1, i - 1) \o SubSeq(pending, i + 1, Len(pending))
    /\ LET call == pending[i]
       IN IF response.ok
          THEN /\ agentInteractions' =
                    Append(agentInteractions,
                           [timestamp |-> now, agent |-> "guardian", bgl |-> call.bgl,
                            trend |-> call.trend, insulinOnBoard |-> call.insulinOnBoard,
                            alert |-> response.alert, severity |-> response.severity])
               /\ alertSends' = IF response.alert /\ response.severity = "critical"
                                THEN sendEmergencyAlert(alertSends, call, now)
                                ELSE alertSends
          ELSE UNCHANGED <<agentInteractions, alertSends>>
    /\ UNCHANGED <<now, storeVars, isRunning, currentBGL, currentTrend, intervalId,
                   alertCallback, timers, nextTimerId, localStorage, lastQuery,
                   populated, appends, advances, logged, testVars, probe>>

\* any pending call gets any response
GuardianSettles ==
    \E i \in 1..Len(pending), response \in GuardianResponses : GuardianResponds(i, response)

\* QuickActions.handleLogInsulin with a valid amount (tenths of a unit)
handleLogInsulin(units) ==
    /\ lastOp' = "logInsulin"
    /\ units > 0
    /\ logged < MaxLogs
    /\ logged' = logged + 1
    /\ medicationLogs' = addMedicationLog(medicationLogs,
                                          [type |-> "bolus", units |-> units], now)
    /\ UNCHANGED <<now, glucoseReadings, mealLogs, simVars, localStorage, lastQuery,
                   populated, appends, advances, testVars, auxVars>>

\* QuickActions.handleLogMeal with a description and a valid carb amount
handleLogMeal(carbs) ==
    /\ lastOp' = "logMeal"
    /\ carbs > 0
    /\ logged < MaxLogs
    /\ logged' = logged + 1
    /\ mealLogs' = addMealLog(mealLogs, [carbs |-> carbs], now)
    /\ UNCHANGED <<now, glucoseReadings, medicationLogs, simVars, localStorage,
                   lastQuery, populated, appends, advances, testVars, auxVars>>

\* wall-clock time passes
Advance(d) ==
    /\ lastOp' = "advance"
    /\ advances < MaxAdvances
    /\ now' = now + d
    /\ advances' = advances + 1
    /\ UNCHANGED <<storeVars, simVars, localStorage, lastQuery, populated, appends, logged, testVars, auxVars>>

----------------------------------------------------------------------------
(* TestDataGenerator *)

\* setHours(0, 0, 0, 0) of the current date
midnight(t) == t - (t % MinutesPerDay)

\* generateRealisticBGL(hour, minute); r is the Math.random() draw times Scale
generateRealisticBGL(hour, r) ==
    LET dawn == IF hour >= 5 /\ hour < 8 THEN 20 ELSE 0
        postMeal == IF (hour >= 8 /\ hour <= 9) \/ (hour >= 12 /\ hour <= 13)
                       \/ (hour >= 18 /\ hour <= 19) THEN 40 ELSE 0
        night == IF hour >= 22 \/ hour < 6 THEN 10 ELSE 0
        base == 120 + dawn + postMeal - night
        scaled == base * Scale + (r - Scale \div 2) * 30
    IN Round(Max(60 * Scale, Min(250 * Scale, scaled)))

\* calculateTrend(bgl)
calculateTrend(bgl, r) ==
    IF bgl < 80 THEN (IF 2 * r > Scale THEN "down" ELSE "steady")
    ELSE IF bgl > 180 THEN (IF 2 * r > Scale THEN "up" ELSE "steady")
    ELSE "steady"

\* calculateIOB(hour, minute), times IOBScale (truncated to an integer)
calculateIOB(hour, minute, r) ==
    IF (hour >= 8 /\ hour < 12) \/ (hour >= 13 /\ hour < 17) \/ (hour >= 19 /\ hour < 23)
    THEN LET minutesAfterDose == (hour % 4) * MinutesPerHour + minute
         IN Max(0, ((5 * Scale + 3 * r) * 10 * (ActiveWindow - minutesAfterDose))
                   \div Scale)
    ELSE 0

\* generateWeekOfGlucoseData followed by the sampling filter of
\* populateTestData: days TestDays..0 before today, TestSamplesPerDay
\* readings a day at equal distances from 00:00, oldest first.  The three
\* random draws are taken once for the whole week.
sampledReadings(t, r1, r2, r3) ==
    LET count == (TestDays + 1) * TestSamplesPerDay
        step == MinutesPerDay \div TestSamplesPerDay
        sample(i) ==
            LET day == TestDays - ((i - 1) \div TestSamplesPerDay)
                minuteOfDay == ((i - 1) % TestSamplesPerDay) * step
                hour == minuteOfDay \div MinutesPerHour
                minute == minuteOfDay % MinutesPerHour
                bgl == generateRealisticBGL(hour, r1)
            IN [timestamp |-> midnight(t) - day * MinutesPerDay + minuteOfDay,
                bgl |-> bgl, trend |-> calculateTrend(bgl, r2),
                insulinOnBoard |-> calculateIOB(hour, minute, r3)]
    IN [i \in 1..count |-> sample(i)]

RECURSIVE generateSampleMealsFrom(_, _, _)
\* generateSampleMeals: per day breakfast, lunch, dinner and, on the days in
\* snackDays, a snack at 15:00 pushed after the dinner
generateSampleMealsFrom(day, t, snackDays) ==
    IF day < 0 THEN <<>>
    ELSE LET at(m) == midnight(t) - day * MinutesPerDay + m
         IN <<[timestamp |-> at(8 * MinutesPerHour), carbs |-> 45],
              [timestamp |-> at(12 * MinutesPerHour + 30), carbs |-> 55],
              [timestamp |-> at(18 * MinutesPerHour), carbs |-> 60]>>
            \o (IF day \in snackDays
                THEN <<[timestamp |-> at(15 * MinutesPerHour), carbs |-> 25]>>
                ELSE <<>>)
            \o generateSampleMealsFrom(day - 1, t, snackDays)

generateSampleMeals(t, snackDays) == generateSampleMealsFrom(TestDays, t, snackDays)

RECURSIVE generateMedicationLogsFrom(_, _)
\* generateMedicationLogs: per day the 22:00 basal dose first, then the
\* boluses of 08:00, 12:30 and 18:00 (units in tenths)
generateMedicationLogsFrom(day, t) ==
    IF day < 0 THEN <<>>
    ELSE LET at(m) == midnight(t) - day * MinutesPerDay + m
         IN <<[timestamp |-> at(22 * MinutesPerHour), type |-> "basal", units |-> 240],
              [timestamp |-> at(8 * MinutesPerHour), type |-> "bolus", units |-> 45],
              [timestamp |-> at(12 * MinutesPerHour + 30), type |-> "bolus", units |-> 55],
              [timestamp |-> at(18 * MinutesPerHour), type |-> "bolus", units |-> 60]>>
            \o generateMedicationLogsFrom(day - 1, t)

generateMedicationLogs(t) == generateMedicationLogsFrom(TestDays, t)

\* "Manually set timestamp (hack for testing)": the timestamp of the element
\* just appended is overwritten in place
setLastTimestamp(logs, ts) ==
    IF Len(logs) > 0 THEN [logs EXCEPT ![Len(logs)].timestamp = ts] ELSE logs

\* the three forEach loops of populateTestData, as the list of the events
\* they add, each tagged with its stream
testEvents(t, r1, r2, r3, snackDays) ==
    LET tag(kind, events) == [i \in 1..Len(events) |-> [kind |-> kind, event |-> events[i]]]
    IN tag("glucose", sampledReadings(t, r1, r2, r3))
       \o tag("meal", generateSampleMeals(t, snackDays))
       \o tag("medication", generateMedicationLogs(t))

\* TestDataGenerator.populateTestData() is called: the data is generated,
\* with the Math.random() draws taken from rands and the days that get a
\* snack from snacks
populateTestDataWith(rands, snacks) ==
    /\ lastOp' = "populate"
    /\ testQueue = <<>>
    /\ populated < MaxPopulate
    /\ populated' = populated + 1
    /\ \E r1, r2, r3 \in rands, snackDays \in snacks :
         testQueue' = testEvents(now, r1, r2, r3, snackDays)
    /\ stampPending' = FALSE
    /\ UNCHANGED <<now, storeVars, simVars, localStorage, lastQuery, appends, advances,
                   logged, auxVars>>

populateTestData == populateTestDataWith(Rand, SUBSET (0..TestDays))

\* one iteration of a forEach loop, first half: the event is added through
\* the store, which stamps it with the current time
populateAdd ==
    /\ lastOp' = "populateAdd"
    /\ testQueue # <<>>
    /\ ~stampPending
    /\ LET e == Head(testQueue)
       IN /\ glucoseReadings' = IF e.kind = "glucose"
                                THEN addGlucoseReading(glucoseReadings, e.event, now)
                                ELSE glucoseReadings
          /\ mealLogs' = IF e.kind = "meal"
                         THEN addMealLog(mealLogs, e.event, now)
                         ELSE mealLogs
          /\ medicationLogs' = IF e.kind = "medication"
                               THEN addMedicationLog(medicationLogs, e.event, now)
                               ELSE medicationLogs
    /\ stampPending' = TRUE
    /\ UNCHANGED <<now, simVars, localStorage, lastQuery, populated, appends, advances,
                   logged, testQueue, auxVars>>

\* second half: "Manually set timestamp (hack for testing)", the timestamp of
\* the last element of the stream is overwritten in place
populateSetTimestamp ==
    /\ lastOp' = "populateSetTimestamp"
    /\ testQueue # <<>>
    /\ stampPending
    /\ LET e == Head(testQueue)
       IN /\ glucoseReadings' = IF e.kind = "glucose"
                                THEN setLastTimestamp(glucoseReadings, e.event.timestamp)
                                ELSE glucoseReadings
          /\ mealLogs' = IF e.kind = "meal"
                         THEN setLastTimestamp(mealLogs, e.event.timestamp)
                         ELSE mealLogs
          /\ medicationLogs' = IF e.kind = "medication"
                               THEN setLastTimestamp(medicationLogs, e.event.timestamp)
                               ELSE medicationLogs
    /\ testQueue' = Tail(testQueue)
    /\ stampPending' = FALSE
    /\ UNCHANGED <<now, simVars, localStorage, lastQuery, populated, appends, advances,
                   logged, auxVars>>

\* a handler runs to completion before the next one starts: nothing else runs
\* while populateTestData() is in its loops
Idle == testQueue = <<>>

----------------------------------------------------------------------------
(* Persistence: exportData, JSON, localStorage, importData *)

\* Date.prototype.toJSON: the ISO string of the instant
toISOString(t) == <<"iso", t>>

\* new Date(isoString)
newDate(iso) == iso[2]

\* the null JSON.stringify writes for NaN; after JSON.parse every numeric use
\* of the field (sum, comparison, Math.round) coerces it to 0
JSONnull == 0

\* JSON.stringify(dataStore.exportData()): every Date becomes its ISO string
\* and a bgl of NaN becomes null
JSONstringify(readings, meals, meds, interactions) ==
    LET dated(r) == [r EXCEPT !.timestamp = toISOString(r.timestamp)]
        ser(r) == IF "bgl" \in DOMAIN r /\ r.bgl = NaN
                  THEN [dated(r) EXCEPT !.bgl = JSONnull]
                  ELSE dated(r)
    IN [glucoseReadings |-> [i \in 1..Len(readings) |-> ser(readings[i])],
        mealLogs |-> [i \in 1..Len(meals) |-> ser(meals[i])],
        medicationLogs |-> [i \in 1..Len(meds) |-> ser(meds[i])],
        agentInteractions |-> [i \in 1..Len(interactions) |-> ser(interactions[i])]]

\* importData: each stream is replaced by the saved one, timestamps revived
importStream(saved) ==
    [i \in 1..Len(saved) |-> [saved[i] EXCEPT !.timestamp = newDate(saved[i].timestamp)]]

importData(data) ==
    /\ glucoseReadings' = importStream(data.glucoseReadings)
    /\ mealLogs' = importStream(data.mealLogs)
    /\ medicationLogs' = importStream(data.medicationLogs)
    /\ agentInteractions' = importStream(data.agentInteractions)

\* an auto-save that leaves the glucose readings out of what it writes
AutoSaveWithoutReadings ==
    /\ lastOp' = "save"
    /\ localStorage' = <<JSONstringify(<<>>, mealLogs, medicationLogs, agentInteractions)>>
    /\ localStorage' # localStorage
    /\ UNCHANGED <<now, storeVars, simVars, lastQuery, populated, appends, advances,
                   logged, testVars, auxVars>>

\* the 30-second auto-save
AutoSave ==
    /\ lastOp' = "save"
    /\ localStorage' = <<JSONstringify(glucoseReadings, mealLogs, medicationLogs,
                                      agentInteractions)>>
    /\ localStorage' # localStorage
    /\ UNCHANGED <<now, storeVars, simVars, lastQuery, populated, appends, advances,
                   logged, testVars, auxVars>>

NoQuery == [kind |-> "none", hours |-> 0, array |-> <<>>]
NoProbe == [fn |-> "none", input |-> <<>>, output |-> <<>>]

\* the state of a freshly constructed CGMSimulator, no timer, no pending call
FreshSimulator ==
    /\ isRunning' = FALSE
    /\ currentBGL' = InitialBGL * Scale
    /\ currentTrend' = "steady"
    /\ intervalId' = 0
    /\ alertCallback' = FALSE
    /\ timers' = {}
    /\ inFlight' = 0
    /\ pending' = <<>>

\* the page is reloaded: with unloadSave the beforeunload handler saves the
\* store first; the modules are initialised again and the store is loaded from
\* localStorage
Reload(unloadSave) ==
    /\ lastOp' = "reload"
    /\ localStorage' = IF unloadSave
                       THEN <<JSONstringify(glucoseReadings, mealLogs, medicationLogs,
                                      agentInteractions)>>
                       ELSE localStorage
    /\ IF localStorage' # <<>>
       THEN importData(localStorage'[1])
       ELSE /\ glucoseReadings' = <<>> /\ mealLogs' = <<>> /\ medicationLogs' = <<>>
            /\ agentInteractions' = <<>>
    /\ FreshSimulator
    /\ lastQuery' = NoQuery
    /\ lastOp # "reload"
    /\ probe' = NoProbe
    /\ UNCHANGED <<now, nextTimerId, populated, appends, advances, logged, testVars,
                   alertSends>>

----------------------------------------------------------------------------
(* Queries *)

\* the stream a query of the given kind reads
streamOf(kind) ==
    IF kind = "glucose" THEN glucoseReadings
    ELSE IF kind = "meal" THEN mealLogs
    ELSE medicationLogs

\* a caller calls getGlucoseReadings / getMealLogs / getMedicationLogs and
\* keeps the array it got (the model follows one such array per run)
Query(kind, hours) ==
    /\ lastOp' = "query"
    /\ lastQuery' = [kind |-> kind, hours |-> hours,
                     array |-> getSince(streamOf(kind), hours, now)]
    /\ lastQuery = NoQuery
    /\ UNCHANGED <<now, storeVars, simVars, localStorage, populated, appends, advances,
                   logged, testVars, auxVars>>

\* updateTrend is applied to a change (times Scale) and the trend it sets is
\* read; the model follows one such application per run, made when a timer
\* cycle has just run
ProbeTrend(change) ==
    /\ lastOp' = "probe"
    /\ probe = NoProbe
    /\ lastOp = "tick"
    /\ probe' = [fn |-> "updateTrend", input |-> change, output |-> updateTrend(change)]
    /\ UNCHANGED <<now, storeVars, simVars, localStorage, lastQuery, populated, appends,
                   advances, logged, testVars, agentInteractions, alertSends>>

\* a reader of getStatistics(hours) that also takes the window's readings
\* out of the store
SummarizeDraining(hours) ==
    /\ lastOp' = IF probe.fn = "getStatistics" THEN "summarizeAgain" ELSE "summarize"
    /\ probe' = [fn |-> "getStatistics",
                 input |-> [hours |-> hours,
                            readings |-> getGlucoseReadings(hours),
                            meals |-> getMealLogs(hours),
                            meds |-> getMedicationLogs(hours)],
                 output |-> getStatistics(glucoseReadings, mealLogs, medicationLogs,
                                          hours, now)]
    /\ glucoseReadings' = SelectSeq(glucoseReadings,
                                    LAMBDA r : r.timestamp < now - hours * MinutesPerHour)
    /\ UNCHANGED <<now, mealLogs, medicationLogs, simVars, localStorage, lastQuery,
                   populated, appends, advances, logged, testVars, agentInteractions,
                   alertSends>>

\* a caller (the dashboard every 10 seconds, the reports) reads
\* getStatistics(hours); the probe keeps the window's entries with the record
\* returned, and lastOp tells a first call from a later one
Summarize(hours) ==
    /\ lastOp' = IF probe.fn = "getStatistics" THEN "summarizeAgain" ELSE "summarize"
    /\ probe' = [fn |-> "getStatistics",
                 input |-> [hours |-> hours,
                            readings |-> getGlucoseReadings(hours),
                            meals |-> getMealLogs(hours),
                            meds |-> getMedicationLogs(hours)],
                 output |-> getStatistics(glucoseReadings, mealLogs, medicationLogs,
                                          hours, now)]
    /\ UNCHANGED <<now, storeVars, simVars, localStorage, lastQuery, populated, appends,
                   advances, logged, testVars, agentInteractions, alertSends>>

\* calculateChange runs at the current time and the change it starts from is
\* read, before the meal, insulin and value effects are added; the model
\* follows one such read per run
ProbeBase(r) ==
    /\ lastOp' = "probeBase"
    /\ probe = NoProbe
    /\ probe' = [fn |-> "baseChange",
                 input |-> [minuteOfDay |-> now % MinutesPerDay, random |-> r],
                 output |-> baseChange(getHours(now), r)]
    /\ UNCHANGED <<now, storeVars, simVars, localStorage, lastQuery, populated, appends,
                   advances, logged, testVars, agentInteractions, alertSends>>

----------------------------------------------------------------------------
(* The program *)

Init ==
    /\ now \in StartTimes
    /\ glucoseReadings = <<>>
    /\ mealLogs = <<>>
    /\ medicationLogs = <<>>
    /\ isRunning = FALSE
    /\ currentBGL = InitialBGL * Scale
    /\ currentTrend = "steady"
    /\ intervalId = 0
    /\ alertCallback = FALSE
    /\ timers = {}
    /\ nextTimerId = 1
    /\ inFlight = 0
    /\ pending = <<>>
    /\ agentInteractions = <<>>
    /\ alertSends = <<>>
    /\ probe = NoProbe
    /\ localStorage = <<>>
    /\ lastQuery = NoQuery
    /\ populated = 0
    /\ appends = 0
    /\ advances = 0
    /\ logged = 0
    /\ testQueue = <<>>
    /\ stampPending = FALSE
    /\ lastOp = "init"

Next ==
    \/ Idle /\ start
    \/ Idle /\ stop
    \/ Idle /\ \E t \in timers : tick(t)
    \/ Idle /\ \E bgl \in ManualBGLs, trend \in ManualTrends, iobInput \in ManualIOBs :
                 analyzeBgl(bgl, trend, iobInput)
    \/ Idle /\ GuardianSettles
    \/ Idle /\ \E units \in InsulinUnits : handleLogInsulin(units)
    \/ Idle /\ \E carbs \in CarbAmounts : handleLogMeal(carbs)
    \/ Idle /\ \E d \in TimeSteps : Advance(d)
    \/ populateTestData
    \/ populateAdd
    \/ populateSetTimestamp
    \/ Idle /\ AutoSave
    \/ Idle /\ \E unloadSave \in BOOLEAN : Reload(unloadSave)
    \/ Idle /\ \E kind \in Kinds, hours \in QueryHours : Query(kind, hours)

Spec == Init /\ [][Next]_vars

\* a glucose stream of n readings as an earlier session of the program saved
\* it: one reading per tick interval, the last one a tick before t
savedReadings(n, t) ==
    [i \in 1..n |-> [timestamp |-> toISOString(t - (n - i + 1) * TickInterval),
                     bgl |-> 100 + (i % 3), trend |-> "steady", insulinOnBoard |-> 0]]

\* the state after the modules were initialised with the data saved[now] in
\* localStorage: the store was loaded from them by importData
InitRestored(saved) ==
    /\ now \in StartTimes
    /\ localStorage = <<saved[now]>>
    /\ glucoseReadings = importStream(localStorage[1].glucoseReadings)
    /\ mealLogs = importStream(localStorage[1].mealLogs)
    /\ medicationLogs = importStream(localStorage[1].medicationLogs)
    /\ isRunning = FALSE
    /\ currentBGL = InitialBGL * Scale
    /\ currentTrend = "steady"
    /\ intervalId = 0
    /\ alertCallback = FALSE
    /\ timers = {}
    /\ nextTimerId = 1
    /\ inFlight = 0
    /\ pending = <<>>
    /\ agentInteractions = <<>>
    /\ alertSends = <<>>
    /\ probe = NoProbe
    /\ lastQuery = NoQuery
    /\ populated = 0
    /\ appends = 0
    /\ advances = 0
    /\ logged = 0
    /\ testQueue = <<>>
    /\ stampPending = FALSE
    /\ lastOp = "init"

\* the same with saved glucose readings only
InitSaved(saved) ==
    InitRestored([t \in StartTimes |->
                    [glucoseReadings |-> saved[t], mealLogs |-> <<>>,
                     medicationLogs |-> <<>>, agentInteractions |-> <<>>]])

\* the same with n saved readings
InitLoaded(n) == InitSaved([t \in StartTimes |-> savedReadings(n, t)])

\* a saved glucose stream with the values bgls, one reading per tick interval
sampleReadings(bgls, t) ==
    [i \in 1..Len(bgls) |->
        [timestamp |-> toISOString(t - (Len(bgls) - i + 1) * TickInterval),
         bgl |-> bgls[i], trend |-> "steady", insulinOnBoard |-> 0]]

(* The statistics of a store that holds saved readings, meals and doses *)
InitStats == \E bgls \in StatsSamples : InitSaved([t \in StartTimes |-> sampleReadings(bgls, t)])

NextStats ==
    \/ \E bgl \in StatsBGLs : analyzeBgl(bgl, "steady", 0)
    \/ \E units \in StoreInsulinUnits : handleLogInsulin(units)
    \/ \E carbs \in CarbAmounts : handleLogMeal(carbs)
    \/ \E d \in StoreTimeSteps : Advance(d)
    \/ probe = NoProbe /\ \E hours \in StatsHours : Summarize(hours)

SpecStats == InitStats /\ [][NextStats]_vars

(* Repeated reads of the statistics, between other reads and the writes *)
SummarySamples == {<<>>, <<70, 100, 100, 190, 300>>}

InitSummary ==
    \E bgls \in SummarySamples : InitSaved([t \in StartTimes |-> sampleReadings(bgls, t)])

NextSummary ==
    \/ \E bgl \in StatsBGLs : analyzeBgl(bgl, "steady", 0)
    \/ \E units \in StoreInsulinUnits : handleLogInsulin(units)
    \/ \E carbs \in CarbAmounts : handleLogMeal(carbs)
    \/ \E d \in StoreTimeSteps : Advance(d)
    \/ \E hours \in StatsHours : Query("glucose", hours)
    \/ \E hours \in StatsHours : Summarize(hours)

SpecSummary == InitSummary /\ [][NextSummary]_vars

(* Save and restore of a store that sessions of manual entries, meals and
   doses have filled *)
RoundTripBGLs == {120, NaN}

NextRoundTrip ==
    \/ \E bgl \in RoundTripBGLs : analyzeBgl(bgl, "steady", 0)
    \/ \E units \in StoreInsulinUnits : handleLogInsulin(units)
    \/ \E carbs \in CarbAmounts : handleLogMeal(carbs)
    \/ \E d \in StoreTimeSteps : Advance(d)
    \/ AutoSave
    \/ \E unloadSave \in BOOLEAN : Reload(unloadSave)

SpecRoundTrip == Init /\ [][NextRoundTrip]_vars

(* The kind of the emergency alerts sent for manual entries of every trend *)
AlertTypeEntries == {<<65, "steady">>, <<120, "double_down">>, <<260, "double_up">>}

NextAlertType ==
    \/ \E e \in AlertTypeEntries : analyzeBgl(e[1], e[2], 0)
    \/ \E response \in LoopResponses : GuardianResponds(1, response)
    \/ \E d \in RetentionTimeSteps : Advance(d)

SpecAlertType == Init /\ [][NextAlertType]_vars

(* Manual entries between the cycles of the generator *)
NextOverride ==
    \/ start
    \/ \E t \in timers : tick(t)
    \/ \E bgl \in ManualBGLs, trend \in ManualTrends : analyzeBgl(bgl, trend, 0)
    \/ GuardianResponds(1, Failure)
    \/ \E d \in RetentionTimeSteps : Advance(d)

SpecOverride == Init /\ [][NextOverride]_vars

(* Overlapping cycles and manual entries, with the guardian answering or
   failing each call *)
NextCycles ==
    \/ start
    \/ \E t \in timers : tick(t)
    \/ \E bgl \in ManualBGLs, trend \in ManualTrends : analyzeBgl(bgl, trend, 0)
    \/ \E response \in LoopResponses : GuardianResponds(1, response)
    \/ \E d \in RetentionTimeSteps : Advance(d)

SpecCycles == Init /\ [][NextCycles]_vars

(* The generator through the hours of a day *)
DriftTimeSteps == {5, 180, 420}

NextDrift ==
    \/ start
    \/ \E t \in timers : tick(t)
    \/ \E d \in DriftTimeSteps : Advance(d)
    \/ \E r \in Rand : ProbeBase(r)

SpecDrift == Init /\ [][NextDrift]_vars

(* Appends by the generator and by manual entries, the periodic save and the
   page being left and loaded again; the interval timer of the save keeps
   firing while the page is open *)
NextDurable ==
    \/ start
    \/ \E t \in timers : tick(t)
    \/ \E bgl \in StoreBGLs : analyzeBgl(bgl, "steady", 0)
    \/ GuardianResponds(1, Failure)
    \/ \E d \in RetentionTimeSteps : Advance(d)
    \/ AutoSave
    \/ Reload(TRUE)

SpecDurable == Init /\ [][NextDurable]_vars /\ WF_vars(AutoSave)

\* n saved meals, one per hour, the last one an hour before t
savedMeals(n, t) ==
    [i \in 1..n |-> [timestamp |-> toISOString(t - (n - i + 1) * MinutesPerHour),
                     carbs |-> 30]]

\* n saved bolus doses, one per hour, the last one an hour before t
savedDoses(n, t) ==
    [i \in 1..n |-> [timestamp |-> toISOString(t - (n - i + 1) * MinutesPerHour),
                     type |-> "bolus", units |-> 45]]

(* The meal and medication streams of a store that earlier sessions filled
   with as many entries as the glucose stream may hold *)
InitLogs ==
    \E n \in {MaxGlucoseReadings - 1, MaxGlucoseReadings} :
        InitRestored([t \in StartTimes |->
                        [glucoseReadings |-> <<>>, mealLogs |-> savedMeals(n, t),
                         medicationLogs |-> savedDoses(n, t),
                         agentInteractions |-> <<>>]])

NextLogs ==
    \/ \E units \in InsulinUnits : handleLogInsulin(units)
    \/ \E carbs \in CarbAmounts : handleLogMeal(carbs)
    \/ \E d \in StoreTimeSteps : Advance(d)
    \/ \E kind \in {"meal", "medication"}, hours \in StoreQueryHours : Query(kind, hours)

SpecLogs == InitLogs /\ [][NextLogs]_vars

(* The generator switched on and off: the mount effect, toggleCGM, the timer *)
NextLifecycle ==
    \/ start
    \/ stop
    \/ \E t \in timers : tick(t)
    \/ GuardianResponds(1, Failure)
    \/ \E d \in RetentionTimeSteps : Advance(d)

SpecLifecycle == Init /\ [][NextLifecycle]_vars

(* The store at its retention bound: a session that starts from the data an
   earlier session saved, which holds at most MaxGlucoseReadings readings *)
InitRetention == \E n \in {MaxGlucoseReadings - 1, MaxGlucoseReadings} : InitLoaded(n)

NextRetention ==
    \/ start
    \/ \E t \in timers : tick(t)
    \/ \E bgl \in RetentionBGLs : analyzeBgl(bgl, "steady", 0)
    \/ GuardianResponds(1, Failure)
    \/ \E d \in RetentionTimeSteps : Advance(d)

SpecRetention == InitRetention /\ [][NextRetention]_vars

(* Restore of saved data of any size, also more than the retention bound *)
InitRestore ==
    \E n \in {MaxGlucoseReadings, MaxGlucoseReadings + 1, MaxGlucoseReadings + 2} :
        InitLoaded(n)

NextRestore ==
    \/ start
    \/ \E t \in timers : tick(t)
    \/ \E bgl \in RetentionBGLs : analyzeBgl(bgl, "steady", 0)
    \/ GuardianResponds(1, Failure)
    \/ \E d \in RetentionTimeSteps : Advance(d)
    \/ \E unloadSave \in BOOLEAN : Reload(unloadSave)

SpecRestore == InitRestore /\ [][NextRestore]_vars

(* The store under manual entries, quick-action logs, test-data population
   and queries *)
NextStore ==
    \/ Idle /\ \E bgl \in StoreBGLs : analyzeBgl(bgl, "steady", 0)
    \/ Idle /\ GuardianResponds(1, Failure)
    \/ Idle /\ \E units \in StoreInsulinUnits : handleLogInsulin(units)
    \/ Idle /\ \E carbs \in CarbAmounts : handleLogMeal(carbs)
    \/ Idle /\ \E d \in StoreTimeSteps : Advance(d)
    \/ populateTestData
    \/ populateAdd
    \/ populateSetTimestamp
    \/ Idle /\ \E kind \in Kinds, hours \in StoreQueryHours : Query(kind, hours)

SpecStore == Init /\ [][NextStore]_vars

(* The dose history and the clock: what insulin on board depends on *)
NextIOB ==
    \/ Idle /\ \E units \in InsulinUnits : handleLogInsulin(units)
    \/ Idle /\ \E d \in TimeSteps : Advance(d)
    \/ populateTestDataWith(IOBRand, {{}})
    \/ populateAdd
    \/ populateSetTimestamp

SpecIOB == Init /\ [][NextIOB]_vars

(* Appends of readings and the clock: what the reads of the glucose stream
   depend on *)
NextReads ==
    \/ start
    \/ \E t \in timers : tick(t)
    \/ \E bgl \in StoreBGLs : analyzeBgl(bgl, "steady", 0)
    \/ GuardianResponds(1, Failure)
    \/ \E d \in ReadTimeSteps : Advance(d)

SpecReads == Init /\ [][NextReads]_vars

(* Readings and the guardian's answers to them *)
NextAlerts ==
    \/ start
    \/ \E t \in timers : tick(t)
    \/ \E e \in AlertEntries : analyzeBgl(e[1], e[2], e[3])
    \/ \E i \in 1..Len(pending), response \in AlertResponses : GuardianResponds(i, response)
    \/ \E d \in RetentionTimeSteps : Advance(d)

SpecAlerts == Init /\ [][NextAlerts]_vars

(* The monitoring loop and its guardian calls, answered late, not at all, or
   with an alert *)
NextLoop ==
    \/ start
    \/ \E t \in timers : tick(t)
    \/ \E i \in 1..Len(pending), response \in LoopResponses : GuardianResponds(i, response)
    \/ \E d \in RetentionTimeSteps : Advance(d)

SpecLoop == Init /\ [][NextLoop]_vars

(* Manual entries of any content, and the cycles that follow them *)
NextManual ==
    \/ start
    \/ \E t \in timers : tick(t)
    \/ \E bgl \in EntryBGLs : analyzeBgl(bgl, "steady", 0)
    \/ GuardianResponds(1, Failure)
    \/ \E d \in RetentionTimeSteps : Advance(d)

SpecManual == Init /\ [][NextManual]_vars

(* The trend: the classification itself and the cycles that use it, with
   meals that make the glucose rise *)
NextTrend ==
    \/ start
    \/ \E t \in timers : tick(t)
    \/ \E carbs \in CarbAmounts : handleLogMeal(carbs)
    \/ \E d \in RetentionTimeSteps : Advance(d)
    \/ \E change \in TrendChanges : ProbeTrend(change)

SpecTrend == Init /\ [][NextTrend]_vars

(* The generator's lifecycle alone: start, stop, timer ticks, manual entries *)
NextGenerator ==
    \/ start
    \/ stop
    \/ \E t \in timers : tick(t)
    \/ \E bgl \in ManualBGLs, trend \in ManualTrends, iobInput \in GeneratorIOBs :
         analyzeBgl(bgl, trend, iobInput)
    \/ GuardianResponds(1, Failure)
    \/ \E d \in TimeSteps : Advance(d)

SpecGenerator == Init /\ [][NextGenerator]_vars

----------------------------------------------------------------------------
(* Properties of the generator's lifecycle *)

\* the stream after one more reading was pushed and nothing was evicted
OneAppended(before, after) ==
    /\ Len(after) = Len(before) + 1
    /\ SubSeq(after, 1, Len(before)) = before

\* C1: start() is idempotent.  A start() call made while the generator is
\* running changes nothing of the generator, the timers or the store; a
\* start() call made while it is stopped registers one timer and appends
\* exactly one (first-cycle) reading; a running generator has exactly one
\* active periodic timer.
C1_StartIdempotent ==
    /\ [][lastOp' = "start" =>
            IF isRunning
            THEN UNCHANGED <<simVars, storeVars>>
            ELSE /\ OneAppended(glucoseReadings, glucoseReadings')
                 /\ Cardinality(timers') = Cardinality(timers) + 1]_vars
    /\ [](isRunning => Cardinality(timers) = 1)

\* C1 witness: a redundant start() has just returned (no guardian call is
\* pending, so this call ran no cycle) with one timer and one reading
C1_Witness ==
    /\ lastOp = "start"
    /\ isRunning
    /\ inFlight = 0
    /\ pending = <<>>
    /\ agentInteractions = <<>>
    /\ alertSends = <<>>
    /\ probe = NoProbe
    /\ Cardinality(timers) = 1
    /\ Len(glucoseReadings) = 1

\* C2: once stop() has returned, and until the next start(), nothing but a
\* manual entry appends a reading: no timer tick runs a cycle and a cycle
\* still in flight appends nothing more; stop() while stopped changes nothing.
C2_NoCycleAfterStop ==
    [][/\ (~isRunning /\ lastOp' \notin {"start", "manual"})
            => glucoseReadings' = glucoseReadings
       /\ (~isRunning /\ lastOp' = "stop") => UNCHANGED <<simVars, storeVars>>]_vars

\* C2 witness: the generator is stopped, a tick interval has passed since its
\* last reading, and the guardian call of a cycle has settled after that
C2_Witness ==
    /\ lastOp \in {"settle", "settleFailed"}
    /\ ~isRunning
    /\ timers = {}
    /\ Len(glucoseReadings) = 1
    /\ glucoseReadings[1].trend # "double_down"
    /\ now >= glucoseReadings[1].timestamp + TickInterval

----------------------------------------------------------------------------
(* Properties of the retention bound *)

\* the newest n elements of a stream
newest(logs, n) ==
    IF Len(logs) <= n THEN logs ELSE SubSeq(logs, Len(logs) - n + 1, Len(logs))

\* a window that covers every reading a full stream holds
WideWindows == QueryHours \cup {168}

C4_RestoreReappliesBound ==
    /\ Len(glucoseReadings) <= MaxGlucoseReadings
    /\ lastOp \in {"init", "reload"} =>
         glucoseReadings =
             newest(importStream(localStorage[1].glucoseReadings), MaxGlucoseReadings)

----------------------------------------------------------------------------
(* Properties of the event streams *)

\* a stream in non-decreasing timestamp order
Sorted(logs) ==
    \A i \in 1..(Len(logs) - 1) : logs[i].timestamp <= logs[i + 1].timestamp

\* C5: each of the three event streams is stored in non-decreasing timestamp
\* order in every reachable state.
C5_StreamsOrdered ==
    /\ Sorted(glucoseReadings)
    /\ Sorted(mealLogs)
    /\ Sorted(medicationLogs)

\* every event of the stream before the step is in the stream after it,
\* unchanged and in the same order, except for the oldest ones of a stream
\* that was at the retention bound
Preserved(before, after) ==
    \E k \in 0..Len(before) :
        /\ k > 0 => Len(before) >= MaxGlucoseReadings
        /\ Len(after) >= Len(before) - k
        /\ SubSeq(after, 1, Len(before) - k) = SubSeq(before, k + 1, Len(before))

\* C6: events are immutable once appended: no step changes a field of an
\* event already in a stream, and an event leaves a stream only by retention
\* eviction.
C6_EventsImmutable ==
    [][/\ Preserved(glucoseReadings, glucoseReadings')
       /\ Preserved(mealLogs, mealLogs')
       /\ Preserved(medicationLogs, medicationLogs')]_vars

\* the array is exactly the events of the stream with timestamp >= cutoff,
\* each as often as the stream holds it, in ascending time order
ExactAscending(array, stream, cutoff) ==
    /\ Sorted(array)
    /\ \A j \in 1..Len(array) : array[j].timestamp >= cutoff
    /\ \A i \in 1..Len(stream) :
         stream[i].timestamp >= cutoff =>
            Cardinality({j \in 1..Len(array) : array[j] = stream[i]})
              = Cardinality({j \in 1..Len(stream) : stream[j] = stream[i]})
    /\ Len(array) = Cardinality({i \in 1..Len(stream) : stream[i].timestamp >= cutoff})

\* C7: a query of any kind and window returns exactly the stored events of
\* that kind with timestamp >= now - window, boundary included, in ascending
\* time order; the array a caller was given earlier stays in ascending order
\* and inside its window whatever is appended later.
C7_QueryExactAscending ==
    /\ \A kind \in Kinds, hours \in WideWindows :
         ExactAscending(getSince(streamOf(kind), hours, now), streamOf(kind),
                        now - hours * MinutesPerHour)
    /\ lastQuery # NoQuery => Sorted(lastQuery.array)

\* C8: read-after-write.  The latest reading is none exactly when the stream
\* is empty; when an append has returned, the latest reading is the appended
\* one, and a query or a statistics call of any window made then returns it
\* as its newest element; in every later state a query or statistics call
\* returns every stored reading whose timestamp its window covers.
C8_ReadAfterWrite ==
    /\ [](/\ (getLatestGlucoseReading(glucoseReadings) = <<>>) <=> (glucoseReadings = <<>>)
          /\ \A hours \in QueryHours :
               /\ \A i \in 1..Len(glucoseReadings) :
                    glucoseReadings[i].timestamp >= now - hours * MinutesPerHour
                      => \E j \in 1..Len(getGlucoseReadings(hours)) :
                            getGlucoseReadings(hours)[j] = glucoseReadings[i]
               /\ getStatistics(glucoseReadings, mealLogs, medicationLogs, hours, now).readings
                    = Cardinality({i \in 1..Len(glucoseReadings) :
                         glucoseReadings[i].timestamp >= now - hours * MinutesPerHour}))
    /\ [][appends' = appends + 1 =>
            LET latest == getLatestGlucoseReading(glucoseReadings')
            IN /\ latest # <<>>
               /\ latest[1].timestamp = now'
               /\ glucoseReadings' = Append(glucoseReadings, latest[1])
               /\ \A hours \in QueryHours :
                    LET array == getSince(glucoseReadings', hours, now')
                    IN /\ array # <<>>
                       /\ array[Len(array)] = latest[1]
                       /\ getStatistics(glucoseReadings', mealLogs', medicationLogs', hours, now').readings
                            = getStatistics(glucoseReadings, mealLogs, medicationLogs, hours, now).readings + 1
                       /\ (latest[1].bgl # NaN /\ latest[1].bgl < 70) =>
                            getStatistics(glucoseReadings', mealLogs', medicationLogs', hours, now').hypoEvents >= 1]_vars

\* C8 witness: a second reading was appended five minutes or more after the
\* first: it is the latest one, and a query with an empty window returns it
\* and not the first
C8_Witness ==
    /\ lastOp \in {"tick", "manual"}
    /\ Len(glucoseReadings) = 2
    /\ glucoseReadings[1].timestamp < now
    /\ getLatestGlucoseReading(glucoseReadings) = <<glucoseReadings[2]>>
    /\ getGlucoseReadings(0) = <<glucoseReadings[2]>>
    /\ getStatistics(glucoseReadings, mealLogs, medicationLogs, 0, now).readings = 1

----------------------------------------------------------------------------
(* Properties of the trend *)

\* the bucket of the rate delta / minutes mg/dL per minute (delta times Scale)
TrendOfRate(delta, minutes) ==
    CASE delta > 2 * minutes * Scale -> "double_up"
      [] delta > minutes * Scale /\ delta <= 2 * minutes * Scale -> "up"
      [] delta < -(2 * minutes * Scale) -> "double_down"
      [] delta < -(minutes * Scale) /\ delta >= -(2 * minutes * Scale) -> "down"
      [] delta >= -(minutes * Scale) /\ delta <= minutes * Scale -> "steady"

\* C11: the trend is a total function of the per-minute rate: above 2
\* double_up, above 1 up, below -2 double_down, below -1 down, else steady;
\* a rate of exactly 1 or -1 is steady, exactly 2 is up, exactly -2 is down;
\* the rate a cycle classifies is its total delta over the 5-minute interval,
\* and the reading the cycle stores carries that trend.
C11_TrendClassification ==
    /\ [](probe.fn = "updateTrend" =>
            /\ probe.output \in Trends
            /\ probe.output = TrendOfRate(probe.input, TickInterval)
            /\ probe.input \in {TickInterval * Scale, -(TickInterval * Scale)}
                  => probe.output = "steady"
            /\ probe.input = 2 * TickInterval * Scale => probe.output = "up"
            /\ probe.input = -(2 * TickInterval * Scale) => probe.output = "down")
    /\ [][(lastOp' = "tick" /\ currentBGL' > MinBGL * Scale /\ currentBGL' < MaxBGL * Scale)
            => /\ currentTrend' = TrendOfRate(currentBGL' - currentBGL, TickInterval)
               /\ glucoseReadings'[Len(glucoseReadings')].trend = currentTrend']_vars

\* C11 witness: a rate of exactly 2 mg/dL per minute was classified, and the
\* last cycle, half an hour of meal and dawn rise in one step, was not steady
C11_Witness ==
    /\ probe.fn = "updateTrend"
    /\ probe.input = 2 * TickInterval * Scale
    /\ probe.output = "up"
    /\ Len(glucoseReadings) >= 2
    /\ currentTrend \in {"up", "double_up"}
    /\ glucoseReadings[Len(glucoseReadings)].trend = currentTrend

----------------------------------------------------------------------------
(* Properties of the alerts *)

\* the decision table, first match wins
Verdict(bgl, trend) ==
    IF bgl < 70 \/ trend = "double_down" THEN [alert |-> TRUE, severity |-> "critical"]
    ELSE IF bgl > 250 \/ trend = "double_up" THEN [alert |-> TRUE, severity |-> "critical"]
    ELSE IF (bgl >= 70 /\ bgl < 80) \/ (bgl > 180 /\ bgl <= 250)
         THEN [alert |-> TRUE, severity |-> "warning"]
    ELSE [alert |-> FALSE, severity |-> "normal"]

\* C12: the verdict the program got for a reading is the one of the decision
\* table: critical for bgl < 70 or double_down, else critical for bgl > 250 or
\* double_up, else warning for 70..79 and 181..250, else no alert; so
\* (65, steady, 0) is critical, (120, steady, 2) none, (260, up, 0) critical,
\* (75, steady, 0) warning, and equal readings get equal verdicts.
C12_VerdictFollowsTable ==
    \A i \in 1..Len(agentInteractions) :
        LET a == agentInteractions[i]
        IN /\ a.alert = Verdict(a.bgl, a.trend).alert
           /\ a.severity = Verdict(a.bgl, a.trend).severity

\* C13: insulin on board does not influence the verdict: two evaluations with
\* the same bgl and trend and different insulin on board have the same alert
\* flag and the same severity.
C13_IOBDoesNotChangeSeverity ==
    \A i, j \in 1..Len(agentInteractions) :
        LET a == agentInteractions[i]
            b == agentInteractions[j]
        IN (a.bgl = b.bgl /\ a.trend = b.trend /\ a.insulinOnBoard # b.insulinOnBoard)
             => (a.alert = b.alert /\ a.severity = b.severity)

\* C14: the alert engine is invoked once for every reading appended, and at
\* most one send to the email server is attempted for a reading: no two
\* guardian calls and no two emergency-alert requests are about the same
\* reading.
C14_OneAlertPerReading ==
    /\ \A i, j \in 1..Len(pending) : i # j => pending[i].reading # pending[j].reading
    /\ \A i, j \in 1..Len(alertSends) :
         i # j => alertSends[i].reading # alertSends[j].reading

\* C15: a failure or a delay of the guardian or of the email server never
\* fails, blocks or corrupts the monitoring loop: a cycle has appended its
\* reading when it issues its guardian call; the answer to a call, a failure
\* included, changes nothing of the store, of the generator's state or of its
\* timer; a running generator keeps its timer; and a timer that is due runs
\* its cycle whatever calls are still pending.
C15_LoopSurvivesGuardian ==
    /\ [][(lastOp' \in {"start", "tick"} /\ appends' = appends + 1)
            => /\ OneAppended(glucoseReadings, glucoseReadings')
               /\ pending' = Append(pending, pending'[Len(pending')])
               /\ pending'[Len(pending')].reading = appends'
               /\ pending'[Len(pending')].bgl = glucoseReadings'[Len(glucoseReadings')].bgl]_vars
    /\ [][lastOp' \in {"settle", "settleFailed"}
            => UNCHANGED <<storeVars, isRunning, currentBGL, currentTrend, intervalId,
                           alertCallback, timers>>]_vars
    /\ [](isRunning => \E t \in timers : t.id = intervalId)
    /\ []((/\ isRunning
           /\ \E t \in timers : now >= t.due
           /\ appends < MaxGlucose
           /\ inFlight < MaxInFlight)
            => ENABLED (\E t \in timers : tick(t)))

\* C15 witness: the guardian call of the first cycle failed, the generator is
\* still running, and the next timer cycle has run and appended its reading
C15_Witness ==
    /\ lastOp = "tick"
    /\ isRunning
    /\ appends = 2
    /\ Len(glucoseReadings) = 2
    /\ agentInteractions = <<>>
    /\ Len(pending) = 1
    /\ pending[1].reading = 2

----------------------------------------------------------------------------
(* Properties of the glucose values *)

\* C16: a malformed manual entry (not a number, negative) is rejected before
\* it reaches the store: no stored reading has such a value, and the
\* generator's current value is never one.
C16_MalformedEntryRejected ==
    /\ \A i \in 1..Len(glucoseReadings) :
         glucoseReadings[i].bgl # NaN /\ glucoseReadings[i].bgl >= 0
    /\ currentBGL # NaN
    /\ currentBGL >= 0

\* C17: every glucose reading in the store has an integer value within
\* [40, 400], the readings of the cycles that follow a manual entry included.
C17_ReadingsWithinRange ==
    \A i \in 1..Len(glucoseReadings) :
        glucoseReadings[i].bgl \in MinBGL..MaxBGL

----------------------------------------------------------------------------
(* Properties of insulin on board *)

\* the store's current estimate, times IOBScale
currentIOB == getInsulinOnBoard(medicationLogs, now)

\* the age of a dose in minutes
age(m) == now - m.timestamp

\* C9: insulin on board is never negative; it does not increase from one
\* moment to a later one while the dose history stays the same; it is exactly
\* 0 when every dose is at least 5 hours old.
C9_IOBDecays ==
    /\ [](/\ currentIOB >= 0
          /\ (\A i \in 1..Len(medicationLogs) : age(medicationLogs[i]) >= ActiveWindow)
                => currentIOB = 0)
    /\ [][(medicationLogs' = medicationLogs /\ now' >= now)
            => getInsulinOnBoard(medicationLogs', now') <= currentIOB]_vars

\* C9 witness: a bolus dose logged by the quick action has become 5 hours old
\* and insulin on board is back to 0
C9_Witness ==
    /\ Len(medicationLogs) = 1
    /\ medicationLogs[1].type = "bolus"
    /\ age(medicationLogs[1]) >= ActiveWindow
    /\ currentIOB = 0
    /\ lastOp = "advance"

\* what one dose contributes: units x max(0, (5h - age) / 5h) for a bolus dose
\* at most 5 hours old, nothing for any other dose; times IOBScale
contribution(m) ==
    IF m.type = "bolus" /\ age(m) <= ActiveWindow
    THEN m.units * Max(0, ActiveWindow - age(m))
    ELSE 0

\* C10: insulin on board is the sum of the contributions of the bolus doses at
\* most 5 hours old, and it is the same with every basal dose taken out of the
\* history.
C10_IOBIsBolusSum ==
    LET bolus(m) == m.type = "bolus"
    IN /\ currentIOB
            = SumSeq([i \in 1..Len(medicationLogs) |-> contribution(medicationLogs[i])])
       /\ currentIOB = getInsulinOnBoard(SelectSeq(medicationLogs, bolus), now)

\* C10 witness: the history holds a basal dose and two bolus doses inside the
\* window, one of them partly decayed, and insulin on board is positive
C10_Witness ==
    /\ \E i \in 1..Len(medicationLogs) :
         medicationLogs[i].type = "basal" /\ age(medicationLogs[i]) <= ActiveWindow
    /\ \E i, j \in 1..Len(medicationLogs) :
         /\ i # j
         /\ medicationLogs[i].type = "bolus" /\ medicationLogs[j].type = "bolus"
         /\ age(medicationLogs[i]) > 0 /\ age(medicationLogs[i]) < ActiveWindow
         /\ age(medicationLogs[j]) <= ActiveWindow
    /\ currentIOB > 0

----------------------------------------------------------------------------
(* Statistics *)

\* the number of readings of a window that satisfy Test
CountOf(readings, Test(_)) == Cardinality({i \in 1..Len(readings) : Test(readings[i])})

\* a call of getStatistics has returned
Summarized == probe.fn = "getStatistics"

\* C18: getStatistics over a window that holds no glucose reading returns a
\* record whose nine fields are all 0 (no NaN, no error), whatever meals and
\* doses the window holds
C18_EmptyWindowAllZero ==
    (Summarized /\ probe.input.readings = <<>>)
      => /\ DOMAIN probe.output = {"avgBGL", "timeInRange", "timeAboveRange",
                                   "timeBelowRange", "hypoEvents", "hyperEvents",
                                   "readings", "avgCarbs", "totalInsulin"}
         /\ \A f \in DOMAIN probe.output : probe.output[f] = 0

\* C18 witness: the store holds readings, but none within the window that was
\* summarized, which holds a meal and a dose
C18_Witness ==
    /\ Summarized
    /\ probe.input.readings = <<>>
    /\ probe.input.meals # <<>>
    /\ probe.input.meds # <<>>
    /\ glucoseReadings # <<>>
    /\ probe.output.avgCarbs = 0
    /\ probe.output.totalInsulin = 0

\* C19: in the record of getStatistics a reading is in range iff
\* 70 <= bgl <= 180, above iff bgl > 180, below iff bgl < 70, and the three
\* counts add up to the readings of the window; hypoEvents counts the
\* readings < 70 and hyperEvents those > 250; each percentage is
\* count / total * 100 rounded to the nearest integer, a half going up
C19_BucketsAndPercentages ==
    (Summarized /\ probe.input.readings # <<>>)
      => LET rs == probe.input.readings
             n == Len(rs)
             inRange == CountOf(rs, LAMBDA r : r.bgl >= 70 /\ r.bgl <= 180)
             above == CountOf(rs, LAMBDA r : r.bgl > 180)
             below == CountOf(rs, LAMBDA r : r.bgl < 70)
             over250 == CountOf(rs, LAMBDA r : r.bgl > 250)
         IN /\ inRange + above + below = n
            /\ probe.output.readings = n
            /\ probe.output.hypoEvents = below
            /\ probe.output.hyperEvents = over250
            /\ probe.output.timeInRange = MathRound(100 * inRange, n)
            /\ probe.output.timeAboveRange = MathRound(100 * above, n)
            /\ probe.output.timeBelowRange = MathRound(100 * below, n)

\* the window that was summarized is the last 7 days and holds exactly the
\* five readings 70, 100, 100, 190 and 300
FiveReadingsSummarized ==
    /\ Summarized
    /\ probe.input.hours = 168
    /\ Len(probe.input.readings) = 5
    /\ CountOf(probe.input.readings, LAMBDA r : r.bgl = 70) = 1
    /\ CountOf(probe.input.readings, LAMBDA r : r.bgl = 100) = 2
    /\ CountOf(probe.input.readings, LAMBDA r : r.bgl = 190) = 1
    /\ CountOf(probe.input.readings, LAMBDA r : r.bgl = 300) = 1

\* C20 (amended): for exactly the five readings 70, 100, 100, 190 and 300 in
\* a 7-day window getStatistics returns timeInRange 60 (the 70 and both 100),
\* timeBelowRange 0, timeAboveRange 40, hypoEvents 0 and hyperEvents 1
C20_FiveReadingsExample ==
    FiveReadingsSummarized
      => /\ probe.output.timeInRange = 60
         /\ probe.output.timeBelowRange = 0
         /\ probe.output.timeAboveRange = 40
         /\ probe.output.hypoEvents = 0
         /\ probe.output.hyperEvents = 1

\* C20 witness: the five readings were summarized and 3 of 5 are in range
C20_Witness ==
    /\ FiveReadingsSummarized
    /\ probe.output.readings = 5
    /\ probe.output.timeInRange = 60

\* C20 as stated: for the five readings the record has timeInRange 40,
\* timeBelowRange 20, timeAboveRange 40, hypoEvents 0 and hyperEvents 1
C20_AsStated ==
    FiveReadingsSummarized
      => /\ probe.output.timeInRange = 40
         /\ probe.output.timeBelowRange = 20
         /\ probe.output.timeAboveRange = 40
         /\ probe.output.hypoEvents = 0
         /\ probe.output.hyperEvents = 1

\* C21: in the record of getStatistics totalInsulin is the sum of the units
\* of all doses of the window, basal and bolus, and avgCarbs is the carbs of
\* the window's meals divided by their number, 0 without meals; also when
\* the window holds doses or meals but no glucose reading
C21_TotalsOverWindow ==
    Summarized
      => LET meals == probe.input.meals
             meds == probe.input.meds
             totalCarbs == SumSeq([i \in 1..Len(meals) |-> meals[i].carbs])
         IN /\ probe.output.totalInsulin
                 = SumSeq([i \in 1..Len(meds) |-> meds[i].units])
            /\ IF meals = <<>>
               THEN probe.output.avgCarbs = 0
               ELSE probe.output.avgCarbs * Len(meals) = totalCarbs

----------------------------------------------------------------------------
(* Persistence *)

----------------------------------------------------------------------------
(* Emergency alerts *)

\* C24: an emergency alert sent for a reading with trend double_down is a
\* hypoglycemia alert whatever its bgl, and an alert is a hyperglycemia alert
\* only when the reading is neither below 70 nor double_down
C24_AlertTypeFirstMatch ==
    \A i \in 1..Len(alertSends) :
        /\ alertSends[i].trend = "double_down" => alertSends[i].alertType = "HYPOGLYCEMIA"
        /\ alertSends[i].alertType = "HYPERGLYCEMIA"
             => ~(alertSends[i].bgl < 70 \/ alertSends[i].trend = "double_down")

----------------------------------------------------------------------------
(* Manual entries and the generator state *)

\* the value a cycle that starts from bgl (times Scale) can compute
CycleValues(bgl) ==
    {IF bgl = NaN THEN NaN
     ELSE Max(MinBGL * Scale,
              Min(MaxBGL * Scale,
                  bgl + calculateChange(now', mealLogs, medicationLogs, bgl, r1, r2, r3))) :
       r1 \in Rand, r2 \in Rand, r3 \in Rand}

\* C25: a manual entry addManualReading(v, t, iob) appends exactly one
\* reading {v, t, iob}, with the trend the caller chose, and sets the
\* generator's currentBGL to v and currentTrend to t; a timer cycle computes
\* its value from currentBGL, and the cycle that follows a manual entry
\* computes it from v
C25_ManualEntryOverwritesState ==
    /\ [][(lastOp' = "manual" /\ appends' = appends + 1)
            => \E k \in 1..Len(pending') :
                 LET call == pending'[k]
                     entry == [timestamp |-> now', bgl |-> call.bgl, trend |-> call.trend,
                               insulinOnBoard |-> call.insulinOnBoard]
                 IN /\ call.caller = "manual"
                    /\ call.reading = appends'
                    /\ glucoseReadings' = Append(glucoseReadings, entry)
                    /\ currentBGL' = inScale(call.bgl)
                    /\ currentTrend' = call.trend]_vars
    /\ [][lastOp' = "tick" => currentBGL' \in CycleValues(currentBGL)]_vars
    /\ [][(lastOp = "manual" /\ lastOp' \in {"start", "tick"} /\ appends' = appends + 1)
            => currentBGL' \in CycleValues(inScale(glucoseReadings[Len(glucoseReadings)].bgl))]_vars

\* C25 witness: a cycle ran right after a manual entry of 260 double_down
\* was made over a generator that stood at another value: the entry is in
\* the store as typed and the cycle's reading follows it
C25_Witness ==
    /\ lastOp = "start"
    /\ Len(glucoseReadings) = 2
    /\ glucoseReadings[1].bgl = 260
    /\ glucoseReadings[1].trend = "double_down"
    /\ glucoseReadings[2].bgl >= 250
    /\ currentBGL >= 250 * Scale

----------------------------------------------------------------------------
(* Time of day effects *)

\* C26: the change a cycle starts from depends on the time of day: from
\* 05:00 to 08:00 it is strictly positive, from 12:00 to 13:00 it is not
\* negative, and at every other time it is noise within 1 mg/dL of zero
C26_BaseDriftByHour ==
    probe.fn = "baseChange"
      => LET minute == probe.input.minuteOfDay
             dawn == minute >= 5 * MinutesPerHour /\ minute <= 8 * MinutesPerHour
             lunch == minute >= 12 * MinutesPerHour /\ minute <= 13 * MinutesPerHour
         IN /\ dawn => probe.output > 0
            /\ lunch => probe.output >= 0
            /\ ~(dawn \/ lunch) => (probe.output >= -Scale /\ probe.output <= Scale)

----------------------------------------------------------------------------
(* Durability *)

\* every reading of the store is in the saved data, as it is in the store
AllSaved ==
    /\ localStorage # <<>>
    /\ importStream(localStorage[1].glucoseReadings) = glucoseReadings

----------------------------------------------------------------------------
(* Bounds of the meal and medication streams *)

\* C28: the meal stream and the medication stream each hold no more entries
\* than a fixed retention bound, the one of the glucose stream, after any
\* sequence of appends
C28_LogsBounded ==
    /\ Len(mealLogs) <= MaxGlucoseReadings
    /\ Len(medicationLogs) <= MaxGlucoseReadings

----------------------------------------------------------------------------
(* The generator's timer *)

\* C29: isRunning holds exactly when a periodic timer is registered, which
\* is the one intervalId names; so at most one timer exists after any
\* sequence of start() and stop(), and none when the generator is stopped
C29_RunningIffTimer ==
    /\ isRunning <=> intervalId # 0
    /\ isRunning => \E t \in timers : t.id = intervalId /\ timers = {t}
    /\ ~isRunning => timers = {}
    /\ Cardinality(timers) <= 1

\* C29 witness: the generator was started, stopped and started again: it
\* runs on its second timer, the only one registered
C29_Witness ==
    /\ lastOp = "start"
    /\ isRunning
    /\ intervalId = 2
    /\ Cardinality(timers) = 1
    /\ Len(glucoseReadings) = 2

----------------------------------------------------------------------------
(* Generation cycles that overlap *)

\* C30: a generation cycle updates currentBGL and currentTrend and appends
\* its reading in one step: the cycle appends exactly one reading, which
\* carries Math.round(currentBGL) and currentTrend as the cycle has just set
\* them, also when an earlier cycle still waits for its guardian call or a
\* manual entry came between; the rest of a cycle, run when its guardian
\* call settles, changes neither the generator's value and trend nor the
\* readings
C30_CycleAppendsWhatItComputed ==
    /\ [][(lastOp' \in {"start", "tick"} /\ appends' # appends)
            => LET reading == glucoseReadings'[Len(glucoseReadings')]
               IN /\ appends' = appends + 1
                  /\ Len(glucoseReadings') = Len(glucoseReadings) + 1
                  /\ SubSeq(glucoseReadings', 1, Len(glucoseReadings)) = glucoseReadings
                  /\ reading.bgl = Round(currentBGL')
                  /\ reading.trend = currentTrend'
                  /\ reading.timestamp = now']_vars
    /\ [][lastOp' \in {"settle", "settleFailed"}
            => UNCHANGED <<currentBGL, currentTrend, glucoseReadings, appends>>]_vars

\* C30 witness: a timer cycle ran while the cycle before it still waited for
\* its guardian call; the store holds one reading of each, the second with
\* the value the generator now has
C30_Witness ==
    /\ lastOp = "tick"
    /\ Len(pending) = 2
    /\ \A k \in 1..2 : pending[k].caller = "cycle" /\ pending[k].reading = k
    /\ Len(glucoseReadings) = 2
    /\ glucoseReadings[2].bgl = Round(currentBGL)
    /\ glucoseReadings[2].bgl # glucoseReadings[1].bgl

============================================================================
